---- MODULE Spec2Model ----
(***************************************************************************)
(* A model of eg_prompt_builder.py (EG Prompt Builder, version 1.4.0):     *)
(* the interactive run of main() as a state machine, with the pure         *)
(* assembly and rendering functions as operators.                          *)
(*                                                                         *)
(* Python strings are modelled as sequences of one-character strings, so   *)
(* that strip, replace, split, join and substring tests are computed the   *)
(* way the interpreter computes them.                                      *)
(***************************************************************************)
EXTENDS Integers, Sequences, FiniteSets, TLC

\* ------------------------------------------------------------------------
\* Python string primitives
\* ------------------------------------------------------------------------

\* The characters str.strip() removes (the inputs of the model use the space).
Whitespace == {" ", "\t"}

\* str.lower(), character by character.
LowerChar(c) ==
    CASE c = "A" -> "a" [] c = "B" -> "b" [] c = "C" -> "c" [] c = "D" -> "d"
      [] c = "E" -> "e" [] c = "F" -> "f" [] c = "G" -> "g" [] c = "H" -> "h"
      [] c = "I" -> "i" [] c = "J" -> "j" [] c = "K" -> "k" [] c = "L" -> "l"
      [] c = "M" -> "m" [] c = "N" -> "n" [] c = "O" -> "o" [] c = "P" -> "p"
      [] c = "Q" -> "q" [] c = "R" -> "r" [] c = "S" -> "s" [] c = "T" -> "t"
      [] c = "U" -> "u" [] c = "V" -> "v" [] c = "W" -> "w" [] c = "X" -> "x"
      [] c = "Y" -> "y" [] c = "Z" -> "z" [] OTHER -> c

Lower(s) == [i \in 1..Len(s) |-> LowerChar(s[i])]

\* str.lstrip(chars) / str.rstrip(chars) / str.strip(chars): the text from
\* the first character outside `chars` and up to the last one.
LStripChars(s, chars) ==
    IF \A i \in 1..Len(s) : s[i] \in chars THEN <<>>
    ELSE SubSeq(s,
                CHOOSE i \in 1..Len(s) :
                    s[i] \notin chars /\ \A j \in 1..(i - 1) : s[j] \in chars,
                Len(s))

RStripChars(s, chars) ==
    IF \A i \in 1..Len(s) : s[i] \in chars THEN <<>>
    ELSE SubSeq(s, 1,
                CHOOSE i \in 1..Len(s) :
                    s[i] \notin chars /\ \A j \in (i + 1)..Len(s) : s[j] \in chars)

StripChars(s, chars) == LStripChars(RStripChars(s, chars), chars)

\* str.strip() with no argument.
Strip(s) == StripChars(s, Whitespace)

\* str.rstrip(",") and str.strip(",").
RStripComma(s) == RStripChars(s, {","})
StripComma(s) == StripChars(s, {","})

\* s.startswith(p, i - 1): p occurs in s at offset i (1-based).
MatchAt(s, p, i) ==
    /\ i + Len(p) - 1 <= Len(s)
    /\ \A k \in 1..Len(p) : s[i + k - 1] = p[k]

\* The offsets of s where the first character of p stands: the only places
\* where p can occur.
Candidates(s, p) == {i \in 1..Len(s) : s[i] = p[1]}

\* p in s
Contains(s, p) == p = <<>> \/ \E i \in Candidates(s, p) : MatchAt(s, p, i)

\* s.find(p) + 1: the first offset where p occurs in s, 0 when there is none.
Find(s, p) ==
    LET hits == {i \in Candidates(s, p) : MatchAt(s, p, i)}
    IN  IF hits = {} THEN 0 ELSE CHOOSE i \in hits : \A j \in hits : i <= j

\* str.replace(old, new): every non-overlapping occurrence, left to right.
\* (No caller passes an empty `old`.)
RECURSIVE Replace(_, _, _)
Replace(s, old, new) ==
    IF old = <<>> THEN s
    ELSE LET i == Find(s, old)
         IN  IF i = 0 THEN s
             ELSE SubSeq(s, 1, i - 1) \o new
                      \o Replace(SubSeq(s, i + Len(old), Len(s)), old, new)

\* sep.join(parts)
RECURSIVE Join(_, _)
Join(parts, sep) ==
    IF parts = <<>> THEN <<>>
    ELSE IF Len(parts) = 1 THEN parts[1]
    ELSE parts[1] \o sep \o Join(Tail(parts), sep)

CommaSpace == <<",", " ">>

\* re.split(r"[;,]", s): the pieces between separators, empty ones included.
RECURSIVE SplitOn(_, _)
SplitOn(s, seps) ==
    IF \A i \in 1..Len(s) : s[i] \notin seps THEN <<s>>
    ELSE LET i == CHOOSE k \in 1..Len(s) :
                      s[k] \in seps /\ \A j \in 1..(k - 1) : s[j] \notin seps
         IN  <<SubSeq(s, 1, i - 1)>> \o SplitOn(SubSeq(s, i + 1, Len(s)), seps)

\* parse_list: comma- or semicolon-separated, pieces stripped, empty dropped.
StripAll(parts) == [i \in 1..Len(parts) |-> Strip(parts[i])]
NonEmptyStr(p) == p # <<>>
parse_list(s) == SelectSeq(StripAll(SplitOn(s, {";", ","})), NonEmptyStr)

\* ------------------------------------------------------------------------
\* Literals of the script
\* ------------------------------------------------------------------------

\* PLACEHOLDERS: the bracketed tokens a template's content may contain.
PLACEHOLDERS ==
    [ name    |-> <<"[","C","H","A","R","A","C","T","E","R"," ","N","A","M","E","]">>,
      hair    |-> <<"[","P","A","S","T","E"," ","H","A","I","R"," ","B","L","O","C","K"," ","H","E","R","E","]">>,
      casual  |-> <<"[","P","A","S","T","E"," ","C","A","S","U","A","L"," ","O","U","T","F","I","T"," ","B","L","O","C","K"," ","H","E","R","E","]">>,
      pajamas |-> <<"[","P","A","S","T","E"," ","P","A","J","A","M","A","S"," ","B","L","O","C","K"," ","H","E","R","E","]">>,
      camp    |-> <<"[","P","A","S","T","E"," ","C","A","M","P"," ","E","V","E","R","F","R","E","E"," ","O","U","T","F","I","T"," ","B","L","O","C","K"," ","H","E","R","E","]">> ]

\* Section names the script reads or writes.
Sec_Header == <<"H","e","a","d","e","r">>
Sec_Character_Identity == <<"C","h","a","r","a","c","t","e","r","_","I","d","e","n","t","i","t","y">>
Sec_Demographics == <<"D","e","m","o","g","r","a","p","h","i","c","s">>
Sec_Hair_Block_Placeholder == <<"H","a","i","r","_","B","l","o","c","k","_","P","l","a","c","e","h","o","l","d","e","r">>
Sec_Head_Structure == <<"H","e","a","d","_","S","t","r","u","c","t","u","r","e">>
Sec_Pose == <<"P","o","s","e">>
Sec_Body == <<"B","o","d","y">>
Sec_Hands == <<"H","a","n","d","s">>
Sec_Clothing == <<"C","l","o","t","h","i","n","g">>
Sec_Camp_Everfree_Clothing_Block == <<"C","a","m","p","_","E","v","e","r","f","r","e","e","_","C","l","o","t","h","i","n","g","_","B","l","o","c","k">>
Sec_Art_Style == <<"A","r","t","_","S","t","y","l","e">>
Sec_Environment == <<"E","n","v","i","r","o","n","m","e","n","t">>
Sec_Lighting == <<"L","i","g","h","t","i","n","g">>
Sec_Background_Element == <<"B","a","c","k","g","r","o","u","n","d","_","E","l","e","m","e","n","t">>
Sec_Mood == <<"M","o","o","d">>
Sec_Negative_Prompt_Header == <<"N","e","g","a","t","i","v","e","_","P","r","o","m","p","t","_","H","e","a","d","e","r">>
Sec_Negative_Content_1 == <<"N","e","g","a","t","i","v","e","_","C","o","n","t","e","n","t","_","1">>
Sec_Negative_Content_2 == <<"N","e","g","a","t","i","v","e","_","C","o","n","t","e","n","t","_","2">>
Sec_Negative_Content_3 == <<"N","e","g","a","t","i","v","e","_","C","o","n","t","e","n","t","_","3">>
Sec_Negative_Content_4 == <<"N","e","g","a","t","i","v","e","_","C","o","n","t","e","n","t","_","4">>
Sec_Negative_Content_5 == <<"N","e","g","a","t","i","v","e","_","C","o","n","t","e","n","t","_","5">>
Sec_Recommended_CFG == <<"R","e","c","o","m","m","e","n","d","e","d","_","C","F","G">>
Sec_Recommended_Steps == <<"R","e","c","o","m","m","e","n","d","e","d","_","S","t","e","p","s">>
Sec_Recommended_Sampler == <<"R","e","c","o","m","m","e","n","d","e","d","_","S","a","m","p","l","e","r">>
Sec_Recommended_Resolution == <<"R","e","c","o","m","m","e","n","d","e","d","_","R","e","s","o","l","u","t","i","o","n">>

\* "clothing", compared with sec.lower() in assemble_single.
LowerClothing == <<"c","l","o","t","h","i","n","g">>
\* "Recommended_", removed from a settings key by render_prompt.
RecommendedPrefix == <<"R","e","c","o","m","m","e","n","d","e","d","_">>
ColonSpace == <<":"," ">>
Newline == <<"\n">>

\* Texts of demographics_tags.
Txt_teen == <<"t","e","e","n">>
Txt_female == <<"f","e","m","a","l","e">>
Txt_child == <<"c","h","i","l","d">>
Txt_adult == <<"a","d","u","l","t">>
Txt_male == <<"m","a","l","e">>
Txt_teen_girl == <<"t","e","e","n"," ","g","i","r","l",","," ","f","e","m","a","l","e">>
Txt_teen_boy == <<"t","e","e","n"," ","b","o","y",","," ","m","a","l","e">>
Txt_child_girl == <<"c","h","i","l","d"," ","g","i","r","l",","," ","f","e","m","a","l","e">>
Txt_child_boy == <<"c","h","i","l","d"," ","b","o","y",","," ","m","a","l","e">>
Txt_adult_woman == <<"a","d","u","l","t"," ","w","o","m","a","n",","," ","f","e","m","a","l","e">>
Txt_adult_man == <<"a","d","u","l","t"," ","m","a","n",","," ","m","a","l","e">>

\* Texts of group_pose_hint and assemble_group.
Txt_group_shot == <<"g","r","o","u","p"," ","s","h","o","t",","," ">>
Txt_hint_classroom == <<" ","s","t","u","d","e","n","t","s",","," ","s","i","t","t","i","n","g"," ","a","t"," ","d","e","s","k","s",","," ","s","i","m","p","l","e"," ","c","o","m","p","o","s","i","t","i","o","n">>
Txt_hint_sleep == <<" ","s","t","u","d","e","n","t","s",","," ","s","l","e","e","p","o","v","e","r"," ","s","c","e","n","e",","," ","s","i","m","p","l","e"," ","c","o","m","p","o","s","i","t","i","o","n">>
Txt_hint_standing == <<" ","s","t","u","d","e","n","t","s",","," ","s","t","a","n","d","i","n","g"," ","t","o","g","e","t","h","e","r",","," ","s","i","m","p","l","e"," ","c","o","m","p","o","s","i","t","i","o","n">>
Txt_hint_camp == <<" ","s","t","u","d","e","n","t","s",","," ","c","a","m","p"," ","e","v","e","r","f","r","e","e"," ","s","c","e","n","e",","," ","s","i","m","p","l","e"," ","c","o","m","p","o","s","i","t","i","o","n">>
Txt_identity_suffix == <<","," ","e","q","u","e","s","t","r","i","a"," ","g","i","r","l","s",","," ","g","r","o","u","p"," ","o","f"," ","s","t","u","d","e","n","t","s">>
Txt_group_body == <<"s","i","m","p","l","e"," ","c","o","m","p","o","s","i","t","i","o","n",","," ","c","l","e","a","r"," ","s","p","a","c","i","n","g"," ","b","e","t","w","e","e","n"," ","c","h","a","r","a","c","t","e","r","s">>
Txt_group_hands == <<"s","i","m","p","l","e"," ","c","a","r","t","o","o","n"," ","h","a","n","d","s",","," ","h","a","n","d","s"," ","a","t"," ","s","i","d","e","s"," ","o","r"," ","r","e","s","t","i","n","g",","," ","f","i","v","e"," ","f","i","n","g","e","r","s"," ","p","e","r"," ","h","a","n","d">>
Txt_group_clothing == <<"m","o","d","e","s","t"," ","c","l","o","t","h","i","n","g">>
Txt_and == <<" ","a","n","d"," ">>

\* ------------------------------------------------------------------------
\* Dictionaries (Dict[str, str]) as functions from keys to values
\* ------------------------------------------------------------------------

EmptyDict == [k \in {} |-> <<>>]

\* d[k] = v
DictSet(d, k, v) == [x \in (DOMAIN d) \cup {k} |-> IF x = k THEN v ELSE d[x]]

\* (d.get(k) or "")
DictGetOrEmpty(d, k) == IF k \in DOMAIN d THEN d[k] ELSE <<>>

\* {sec: content for sec, content in items}: a later pair replaces an earlier one.
RECURSIVE DictFromItems(_, _)
DictFromItems(items, acc) ==
    IF items = <<>> THEN acc
    ELSE DictFromItems(Tail(items), DictSet(acc, items[1][1], items[1][2]))

\* ------------------------------------------------------------------------
\* Outfit mode
\* ------------------------------------------------------------------------

\* The answers prompt_outfit_force can return.
ForcedModes == {"auto", "casual", "pajamas", "camp"}

\* A plausible slip: the template kind is consulted before the forced mode.
resolve_outfit_mode_KindFirst(kind, forced_mode) ==
    IF kind = "sleep" THEN "pajamas"
    ELSE IF kind = "camp" THEN "camp"
    ELSE IF forced_mode \in {"casual", "pajamas", "camp"} THEN forced_mode
    ELSE "casual"

resolve_outfit_mode(kind, forced_mode) ==
    IF forced_mode \in {"casual", "pajamas", "camp"} THEN forced_mode
    ELSE IF kind = "sleep" THEN "pajamas"
    ELSE IF kind = "camp" THEN "camp"
    ELSE "casual"

outfit_block_for(c, outfit_mode) ==
    IF outfit_mode = "pajamas" THEN c.pajamas
    ELSE IF outfit_mode = "camp" THEN c.camp
    ELSE c.casual

\* ------------------------------------------------------------------------
\* Demographics injection
\* ------------------------------------------------------------------------

demographics_tags(age_group, gender) ==
    LET ag  == Lower(Strip(age_group))
        gd  == Lower(Strip(gender))
        age == IF ag = <<>> THEN Txt_teen ELSE ag
        gen == IF gd = <<>> THEN Txt_female ELSE gd
    IN  IF age = Txt_teen /\ gen = Txt_female THEN Txt_teen_girl
        ELSE IF age = Txt_teen /\ gen = Txt_male THEN Txt_teen_boy
        ELSE IF age = Txt_child /\ gen = Txt_female THEN Txt_child_girl
        ELSE IF age = Txt_child /\ gen = Txt_male THEN Txt_child_boy
        ELSE IF age = Txt_adult /\ gen = Txt_female THEN Txt_adult_woman
        ELSE IF age = Txt_adult /\ gen = Txt_male THEN Txt_adult_man
        ELSE age \o CommaSpace \o gen

\* ------------------------------------------------------------------------
\* Group pose helper
\* ------------------------------------------------------------------------

Digit(d) == <<CASE d = 0 -> "0" [] d = 1 -> "1" [] d = 2 -> "2" [] d = 3 -> "3"
                [] d = 4 -> "4" [] d = 5 -> "5" [] d = 6 -> "6" [] d = 7 -> "7"
                [] d = 8 -> "8" [] OTHER -> "9">>

\* str(n) for n >= 0 (the {n} of an f-string).
RECURSIVE IntToStr(_)
IntToStr(n) == IF n < 10 THEN Digit(n) ELSE IntToStr(n \div 10) \o Digit(n % 10)

group_pose_hint(kind, n) ==
    Txt_group_shot \o IntToStr(n) \o
        ( IF kind = "classroom" THEN Txt_hint_classroom
          ELSE IF kind = "sleep" THEN Txt_hint_sleep
          ELSE IF kind = "winter" THEN Txt_hint_standing
          ELSE IF kind = "camp" THEN Txt_hint_camp
          ELSE Txt_hint_standing )

\* ------------------------------------------------------------------------
\* Assembly
\* ------------------------------------------------------------------------

\* A plausible slip: the pajamas placeholder is never replaced.
BindSingle_SkipsPajamas(content, c) ==
    Replace(Replace(Replace(Replace(content,
        PLACEHOLDERS.name, c.character),
        PLACEHOLDERS.hair, c.hair),
        PLACEHOLDERS.casual, c.casual),
        PLACEHOLDERS.camp, c.camp)

\* The five replacements of assemble_single's loop body, in the code's order.
BindSingle(content, c) ==
    Replace(Replace(Replace(Replace(Replace(content,
        PLACEHOLDERS.name, c.character),
        PLACEHOLDERS.hair, c.hair),
        PLACEHOLDERS.casual, c.casual),
        PLACEHOLDERS.pajamas, c.pajamas),
        PLACEHOLDERS.camp, c.camp)

\* One iteration of assemble_single's loop over the template's pairs.
SingleSection(sec, content, c, outfit_mode) ==
    LET out == BindSingle(content, c)
    IN  IF Lower(sec) = LowerClothing /\ Strip(out) = <<>>
        THEN outfit_block_for(c, outfit_mode)
        ELSE out

RECURSIVE SingleLoop(_, _, _, _)
SingleLoop(items, c, outfit_mode, acc) ==
    IF items = <<>> THEN acc
    ELSE SingleLoop(Tail(items), c, outfit_mode,
             DictSet(acc, items[1][1],
                     SingleSection(items[1][1], items[1][2], c, outfit_mode)))

\* A plausible slip: Demographics is injected only when the template has no
\* section of that name.
assemble_single_TemplateWins(template_items, c, kind, forced_mode) ==
    LET outfit_mode == resolve_outfit_mode(kind, forced_mode)
        assembled   == SingleLoop(template_items, c, outfit_mode, EmptyDict)
    IN  IF Sec_Demographics \in DOMAIN assembled THEN assembled
        ELSE DictSet(assembled, Sec_Demographics,
                     demographics_tags(c.age_group, c.gender))

assemble_single(template_items, c, kind, forced_mode) ==
    LET outfit_mode == resolve_outfit_mode(kind, forced_mode)
        assembled   == SingleLoop(template_items, c, outfit_mode, EmptyDict)
    IN  DictSet(assembled, Sec_Demographics,
                demographics_tags(c.age_group, c.gender))

\* names = [x.character for x in group_chars]
GroupNames(group_chars) == [i \in 1..Len(group_chars) |-> group_chars[i].character]

\* One element of `parts`: ", ".join([name, hair.rstrip(","), outfit.rstrip(",")]).
GroupPart(c, outfit_mode) ==
    Join(<<c.character, RStripComma(c.hair),
           RStripComma(outfit_block_for(c, outfit_mode))>>, CommaSpace)

\* The closing pass of assemble_group over one value.
ClearPlaceholders(val, names) ==
    StripComma(Strip(
        Replace(Replace(Replace(Replace(Replace(val,
            PLACEHOLDERS.name, Join(names, Txt_and)),
            PLACEHOLDERS.hair, <<>>),
            PLACEHOLDERS.casual, <<>>),
            PLACEHOLDERS.pajamas, <<>>),
            PLACEHOLDERS.camp, <<>>)))

assemble_group(template_items, group_chars, kind, forced_mode) ==
    LET outfit_mode == resolve_outfit_mode(kind, forced_mode)
        n     == Len(group_chars)
        names == GroupNames(group_chars)
        a0 == DictFromItems(template_items, EmptyDict)
        a1 == DictSet(a0, Sec_Character_Identity,
                      Join(names, CommaSpace) \o Txt_identity_suffix)
        parts == [i \in 1..n |-> GroupPart(group_chars[i], outfit_mode)]
        a2 == DictSet(a1, Sec_Hair_Block_Placeholder, Join(parts, CommaSpace))
        pose_template == Strip(DictGetOrEmpty(a2, Sec_Pose))
        a3 == DictSet(a2, Sec_Pose,
                      Join(SelectSeq(<<group_pose_hint(kind, n), pose_template>>,
                                     NonEmptyStr), CommaSpace))
        a4 == DictSet(a3, Sec_Body, Txt_group_body)
        a5 == DictSet(a4, Sec_Hands, Txt_group_hands)
        a6 == DictSet(a5, Sec_Clothing, Txt_group_clothing)
        a7 == DictSet(a6, Sec_Demographics,
                      Join([i \in 1..n |->
                               demographics_tags(group_chars[i].age_group,
                                                 group_chars[i].gender)],
                           CommaSpace))
    IN  [sec \in DOMAIN a7 |-> ClearPlaceholders(a7[sec], names)]

\* ------------------------------------------------------------------------
\* Rendering
\* ------------------------------------------------------------------------

main_order ==
    << Sec_Header, Sec_Character_Identity, Sec_Demographics,
       Sec_Hair_Block_Placeholder, Sec_Head_Structure, Sec_Pose, Sec_Body,
       Sec_Hands, Sec_Clothing, Sec_Camp_Everfree_Clothing_Block,
       Sec_Art_Style, Sec_Environment, Sec_Lighting, Sec_Background_Element,
       Sec_Mood >>

negative_order ==
    << Sec_Negative_Prompt_Header, Sec_Negative_Content_1,
       Sec_Negative_Content_2, Sec_Negative_Content_3,
       Sec_Negative_Content_4, Sec_Negative_Content_5 >>

settings_order ==
    << Sec_Recommended_CFG, Sec_Recommended_Steps, Sec_Recommended_Sampler,
       Sec_Recommended_Resolution >>

\* render_prompt's local get(): (assembled.get(sec) or "").strip()
RenderGet(assembled, sec) == Strip(DictGetOrEmpty(assembled, sec))

\* [get(s).rstrip(",") for s in order if get(s)], then the empty ones dropped.
RenderParts(assembled, order) ==
    LET present(s) == RenderGet(assembled, s) # <<>>
        kept == SelectSeq(order, present)
        vals == [i \in 1..Len(kept) |-> RStripComma(RenderGet(assembled, kept[i]))]
    IN  SelectSeq(vals, NonEmptyStr)

SettingsLines(assembled) ==
    LET present(s) == RenderGet(assembled, s) # <<>>
        kept == SelectSeq(settings_order, present)
    IN  [i \in 1..Len(kept) |->
            Replace(kept[i], RecommendedPrefix, <<>>) \o ColonSpace
                \o RenderGet(assembled, kept[i])]

render_prompt(assembled) ==
    [ main     |-> Join(RenderParts(assembled, main_order), CommaSpace),
      neg      |-> Join(RenderParts(assembled, negative_order), CommaSpace),
      settings |-> Join(SettingsLines(assembled), Newline) ]

\* ------------------------------------------------------------------------
\* Filename helpers
\* ------------------------------------------------------------------------

Txt_classroom == <<"c","l","a","s","s","r","o","o","m">>
Txt_daytime == <<"d","a","y","t","i","m","e">>
Txt_outdoor == <<"o","u","t","d","o","o","r">>
Txt_winter == <<"w","i","n","t","e","r">>
Txt_camp == <<"c","a","m","p">>
Txt_everfree == <<"e","v","e","r","f","r","e","e">>
Txt_sleep == <<"s","l","e","e","p">>
Txt_item == <<"i","t","e","m">>
Txt_txt == <<".","t","x","t">>
Txt_group == <<"g","r","o","u","p">>
Txt_group_rand == <<"g","r","o","u","p","_","r","a","n","d">>
DoubleUnderscore == <<"_","_">>
Underscore == <<"_">>
Txt_MAIN_PROMPT == <<"M","A","I","N"," ","P","R","O","M","P","T",":","\n">>
Txt_NEGATIVE_PROMPT == <<"\n","\n","N","E","G","A","T","I","V","E"," ","P","R","O","M","P","T",":","\n">>
Txt_SETTINGS == <<"\n","\n","S","E","T","T","I","N","G","S",":","\n">>

\* The characters the regular expression class \w matches (ASCII part).
WordChars == {"a","b","c","d","e","f","g","h","i","j","k","l","m","n","o","p","q","r","s","t","u","v","w","x","y","z","A","B","C","D","E","F","G","H","I","J","K","L","M","N","O","P","Q","R","S","T","U","V","W","X","Y","Z","0","1","2","3","4","5","6","7","8","9","_"}

\* ------------------------------------------------------------------------
\* The files and the typed answers the model draws its inputs from
\* ------------------------------------------------------------------------

\* Column names are compared whole, so they are modelled as atoms.
CharacterColumns ==
    { "Character", "Age_Group", "Gender", "Hair_Block", "Casual_Outfit_Block",
      "Pajamas_Block", "Camp_Everfree_Outfit_Block" }

TemplateColumns == {"Section", "Content"}

\* sorted() of a set of column names: the names above in code-point order.
ColumnOrder ==
    << "Age_Group", "Camp_Everfree_Outfit_Block", "Casual_Outfit_Block",
       "Character", "Content", "Gender", "Hair_Block", "Pajamas_Block",
       "Section" >>

\* Data rows of the reference roster, as the CSV reader yields them (raw cells).
RosterRawRows ==
    <<
      [ Character |-> <<"R","a","r","i","t","y">>,
        Age_Group |-> <<"t","e","e","n">>,
        Gender |-> <<"f","e","m","a","l","e">>,
        Hair_Block |-> <<"p","u","r","p","l","e"," ","h","a","i","r">>,
        Casual_Outfit_Block |-> <<"w","h","i","t","e"," ","b","l","o","u","s","e">>,
        Pajamas_Block |-> <<"b","l","u","e"," ","g","o","w","n">>,
        Camp_Everfree_Outfit_Block |-> <<"c","a","m","p"," ","t","e","e",",">> ],
      [ Character |-> <<" ","A","p","p","l","e","j","a","c","k"," ">>,
        Age_Group |-> <<" ","T","e","e","n"," ">>,
        Gender |-> <<"F","e","m","a","l","e">>,
        Hair_Block |-> <<"b","l","o","n","d","e"," ","h","a","i","r",",">>,
        Casual_Outfit_Block |-> <<"p","l","a","i","d"," ","s","h","i","r","t">>,
        Pajamas_Block |-> <<>>,
        Camp_Everfree_Outfit_Block |-> <<"c","a","m","p"," ","s","h","o","r","t","s">> ],
      [ Character |-> <<" "," ">>,
        Age_Group |-> <<"t","e","e","n">>,
        Gender |-> <<"f","e","m","a","l","e">>,
        Hair_Block |-> <<"n","o"," ","h","a","i","r">>,
        Casual_Outfit_Block |-> <<>>,
        Pajamas_Block |-> <<>>,
        Camp_Everfree_Outfit_Block |-> <<>> ],
      [ Character |-> <<"S","p","i","k","e">>,
        Age_Group |-> <<"c","h","i","l","d">>,
        Gender |-> <<"m","a","l","e">>,
        Hair_Block |-> <<"g","r","e","e","n"," ","s","p","i","k","e","s">>,
        Casual_Outfit_Block |-> <<"p","u","r","p","l","e"," ","h","o","o","d","i","e">>,
        Pajamas_Block |-> <<"g","r","e","e","n"," ","p","a","j","a","m","a","s">>,
        Camp_Everfree_Outfit_Block |-> <<>> ]
    >>

BlankRawRows ==
    <<
      [ Character |-> <<" ">>,
        Age_Group |-> <<"t","e","e","n">>,
        Gender |-> <<"f","e","m","a","l","e">>,
        Hair_Block |-> <<"n","o"," ","h","a","i","r">>,
        Casual_Outfit_Block |-> <<>>,
        Pajamas_Block |-> <<>>,
        Camp_Everfree_Outfit_Block |-> <<>> ]
    >>

\* File names.
Path_reference == <<"e","q","u","e","s","t","r","i","a","_","g","i","r","l","s","_","r","e","f","e","r","e","n","c","e",".","c","s","v">>
Path_missing_cols == <<"m","i","s","s","i","n","g","_","c","o","l","s",".","c","s","v">>
Path_blank == <<"b","l","a","n","k","_","n","a","m","e","s",".","c","s","v">>
Path_empty == <<"e","m","p","t","y",".","c","s","v">>
Path_absent == <<"a","b","s","e","n","t",".","c","s","v">>
Path_t_classroom == <<"u","l","t","r","a","_","m","i","n","i","m","a","l","_","b","u","l","l","e","t","p","r","o","o","f","_","e","g","_","t","e","m","p","l","a","t","e","_","c","l","a","s","s","r","o","o","m",".","c","s","v">>
Path_t_daytime == <<"u","l","t","r","a","_","m","i","n","i","m","a","l","_","b","u","l","l","e","t","p","r","o","o","f","_","e","g","_","t","e","m","p","l","a","t","e","_","d","a","y","t","i","m","e",".","c","s","v">>
Path_t_outdoor == <<"u","l","t","r","a","_","m","i","n","i","m","a","l","_","b","u","l","l","e","t","p","r","o","o","f","_","e","g","_","t","e","m","p","l","a","t","e","_","o","u","t","d","o","o","r",".","c","s","v">>
Path_t_sleep == <<"u","l","t","r","a","_","m","i","n","i","m","a","l","_","b","u","l","l","e","t","p","r","o","o","f","_","e","g","_","t","e","m","p","l","a","t","e","_","s","l","e","e","p",".","c","s","v">>
Path_t_winter == <<"u","l","t","r","a","_","m","i","n","i","m","a","l","_","b","u","l","l","e","t","p","r","o","o","f","_","e","g","_","t","e","m","p","l","a","t","e","_","w","i","n","t","e","r",".","c","s","v">>
Path_t_everfree == <<"m","y","_","E","v","e","r","f","r","e","e",".","c","s","v">>
Path_t_none == <<"c","a","m","p","/","n","o","_","s","e","c","t","i","o","n","s",".","c","s","v">>
Path_t_bad == <<"b","a","d","_","t","e","m","p","l","a","t","e",".","c","s","v">>

\* Data rows of the template files, as (Section, Content) raw cells.
Rows_t_classroom ==
    <<<<<<"H","e","a","d","e","r">>, <<"[","C","H","A","R","A","C","T","E","R"," ","N","A","M","E","]"," ","p","o","r","t","r","a","i","t",","," ","s","c","o","r","e","_","9">>>>,
         <<<<"C","h","a","r","a","c","t","e","r","_","I","d","e","n","t","i","t","y">>, <<"[","C","H","A","R","A","C","T","E","R"," ","N","A","M","E","]",","," ","s","t","u","d","e","n","t">>>>,
         <<<<"H","a","i","r","_","B","l","o","c","k","_","P","l","a","c","e","h","o","l","d","e","r">>, <<"[","P","A","S","T","E"," ","H","A","I","R"," ","B","L","O","C","K"," ","H","E","R","E","]">>>>,
         <<<<"P","o","s","e">>, <<"a","t"," ","d","e","s","k">>>>,
         <<<<"C","l","o","t","h","i","n","g">>, <<"[","P","A","S","T","E"," ","C","A","S","U","A","L"," ","O","U","T","F","I","T"," ","B","L","O","C","K"," ","H","E","R","E","]">>>>,
         <<<<"N","e","g","a","t","i","v","e","_","P","r","o","m","p","t","_","H","e","a","d","e","r">>, <<"l","o","w","r","e","s",",">>>>,
         <<<<"N","e","g","a","t","i","v","e","_","C","o","n","t","e","n","t","_","1">>, <<"e","x","t","r","a"," ","l","i","m","b","s">>>>,
         <<<<"R","e","c","o","m","m","e","n","d","e","d","_","C","F","G">>, <<"5">>>>>>
Rows_t_daytime ==
    <<<<<<"H","e","a","d","e","r">>, <<"s","c","o","r","e","_","9">>>>,
         <<<<"C","l","o","t","h","i","n","g">>, <<" ">>>>,
         <<<<>>, <<"o","r","p","h","a","n">>>>,
         <<<<"N","e","g","a","t","i","v","e","_","C","o","n","t","e","n","t","_","2">>, <<"b","l","u","r","r","y">>>>>>
Rows_t_outdoor ==
    <<<<<<"E","n","v","i","r","o","n","m","e","n","t">>, <<"p","a","r","k",",">>>>,
         <<<<"M","o","o","d">>, <<>>>>>>
Rows_t_sleep ==
    <<<<<<"C","h","a","r","a","c","t","e","r","_","I","d","e","n","t","i","t","y">>, <<"[","C","H","A","R","A","C","T","E","R"," ","N","A","M","E","]">>>>,
         <<<<"c","l","o","t","h","i","n","g">>, <<"[","P","A","S","T","E"," ","P","A","J","A","M","A","S"," ","B","L","O","C","K"," ","H","E","R","E","]">>>>,
         <<<<"P","o","s","e">>, <<>>>>,
         <<<<"M","o","o","d">>, <<"[","P","A","S","T","E"," ","P","A","J","A","M","A","S"," ","B","L","O","C","K"," ","H","E","R","E","]",","," ","c","o","z","y">>>>,
         <<<<"N","e","g","a","t","i","v","e","_","P","r","o","m","p","t","_","H","e","a","d","e","r">>, <<"l","o","w","r","e","s">>>>>>
Rows_t_winter ==
    <<<<<<"B","o","d","y">>, <<"[","U","N","K","N","O","W","N"," ","T","O","K","E","N","]"," ","c","o","a","t">>>>,
         <<<<"L","i","g","h","t","i","n","g">>, <<"s","o","f","t"," ","[","c","h","a","r","a","c","t","e","r"," ","n","a","m","e","]">>>>,
         <<<<"N","e","g","a","t","i","v","e","_","C","o","n","t","e","n","t","_","5">>, <<"b","a","d"," ","h","a","n","d","s">>>>,
         <<<<"R","e","c","o","m","m","e","n","d","e","d","_","S","t","e","p","s">>, <<"3","0">>>>>>
Rows_t_everfree ==
    <<<<<<"D","e","m","o","g","r","a","p","h","i","c","s">>, <<"o","l","d"," ","m","a","n">>>>,
         <<<<"P","o","s","e">>, <<"h","i","k","i","n","g">>>>,
         <<<<"C","a","m","p","_","E","v","e","r","f","r","e","e","_","C","l","o","t","h","i","n","g","_","B","l","o","c","k">>, <<"[","P","A","S","T","E"," ","C","A","M","P"," ","E","V","E","R","F","R","E","E"," ","O","U","T","F","I","T"," ","B","L","O","C","K"," ","H","E","R","E","]">>>>,
         <<<<"M","o","o","d">>, <<"c","a","l","m">>>>,
         <<<<"M","o","o","d">>, <<"b","r","a","v","e">>>>>>

\* Answers typed at the prompts.
In_blank == <<>>
In_one_everfree == <<"m","y","_","E","v","e","r","f","r","e","e",".","c","s","v">>
In_none_and_sleep == <<"c","a","m","p","/","n","o","_","s","e","c","t","i","o","n","s",".","c","s","v",";"," ","u","l","t","r","a","_","m","i","n","i","m","a","l","_","b","u","l","l","e","t","p","r","o","o","f","_","e","g","_","t","e","m","p","l","a","t","e","_","s","l","e","e","p",".","c","s","v">>
In_only_comma == <<",">>
In_with_bad == <<"m","y","_","E","v","e","r","f","r","e","e",".","c","s","v",","," ","b","a","d","_","t","e","m","p","l","a","t","e",".","c","s","v">>
In_with_absent == <<"a","b","s","e","n","t",".","c","s","v">>
In_rarity_lower == <<"r","a","r","i","t","y">>
In_bogus == <<"B","o","g","u","s">>
In_rarity_applejack == <<"R","a","r","i","t","y",","," ","A","p","p","l","e","j","a","c","k">>
In_rarity_twice == <<"R","a","r","i","t","y",","," ","r","a","r","i","t","y">>
In_rarity_nobody == <<"R","a","r","i","t","y",","," ","N","o","b","o","d","y">>
In_rarity_rarity_applejack == <<"R","a","r","i","t","y",","," ","r","a","r","i","t","y",","," ","A","p","p","l","e","j","a","c","k">>
In_applejack_rarity == <<"a","p","p","l","e","j","a","c","k",";"," ","R","a","r","i","t","y">>
In_rarity == <<"R","a","r","i","t","y">>
In_bogus_rarity_applejack_nobody == <<"B","o","g","u","s",","," ","R","a","r","i","t","y",","," ","A","p","p","l","e","j","a","c","k",","," ","N","o","b","o","d","y">>

\* What open() finds at a path: whether the file exists, its header line
\* (csv.DictReader.fieldnames, empty for a file with no header) and its rows.
FileSystem(path) ==
    CASE path = Path_reference ->
           [exists |-> TRUE, fieldnames |-> CharacterColumns, rows |-> RosterRawRows]
      [] path = Path_missing_cols ->
           [exists |-> TRUE,
            fieldnames |-> (CharacterColumns \ {"Gender", "Hair_Block"}) \cup {"Notes"},
            rows |-> <<>>]
      [] path = Path_blank ->
           [exists |-> TRUE, fieldnames |-> CharacterColumns, rows |-> BlankRawRows]
      [] path = Path_empty ->
           [exists |-> TRUE, fieldnames |-> {}, rows |-> <<>>]
      [] path = Path_t_classroom ->
           [exists |-> TRUE, fieldnames |-> TemplateColumns, rows |-> Rows_t_classroom]
      [] path = Path_t_daytime ->
           [exists |-> TRUE, fieldnames |-> TemplateColumns, rows |-> Rows_t_daytime]
      [] path = Path_t_outdoor ->
           [exists |-> TRUE, fieldnames |-> TemplateColumns, rows |-> Rows_t_outdoor]
      [] path = Path_t_sleep ->
           [exists |-> TRUE, fieldnames |-> TemplateColumns, rows |-> Rows_t_sleep]
      [] path = Path_t_winter ->
           [exists |-> TRUE, fieldnames |-> TemplateColumns, rows |-> Rows_t_winter]
      [] path = Path_t_everfree ->
           [exists |-> TRUE, fieldnames |-> TemplateColumns \cup {"Comment"},
            rows |-> Rows_t_everfree]
      [] path = Path_t_none ->
           [exists |-> TRUE, fieldnames |-> TemplateColumns, rows |-> <<>>]
      [] path = Path_t_bad ->
           [exists |-> TRUE, fieldnames |-> {"Section", "Text"}, rows |-> <<>>]
      [] OTHER ->
           [exists |-> FALSE, fieldnames |-> {}, rows |-> <<>>]

\* Answers to "Character CSV [equestria_girls_reference.csv]: ".
CharCsvAnswers == {<<>>, Path_missing_cols, Path_blank, Path_empty, Path_absent}

\* Answers to "Templates: ".
TemplateAnswers ==
    { In_blank, In_one_everfree, In_none_and_sleep, In_only_comma, In_with_bad,
      In_with_absent }

\* Answers to the character-scope menu: the choice and the names typed after it.
ScopeAnswers ==
    { [choice |-> "1", names |-> <<>>],
      [choice |-> "2", names |-> In_rarity_lower],
      [choice |-> "2", names |-> In_bogus],
      [choice |-> "3", names |-> In_rarity_applejack],
      [choice |-> "3", names |-> In_rarity_twice],
      [choice |-> "3", names |-> In_rarity_nobody],
      [choice |-> "3", names |-> In_only_comma] }

\* Answers to "Group: ".
GroupAnswers ==
    { In_rarity_rarity_applejack, In_applejack_rarity, In_rarity, In_blank,
      In_rarity_nobody, In_bogus_rarity_applejack_nobody }

\* The largest number typed for the random group size, and for the number of
\* random groups.
MaxSizeInput == 4
MaxNumGroups == 2

\* ------------------------------------------------------------------------
\* CSV IO
\* ------------------------------------------------------------------------

\* sorted(missing)
SortedColumns(S) == SelectSeq(ColumnOrder, LAMBDA c : c \in S)

NoError == [type |-> "none", text |-> "", names |-> <<>>]

ValueError(text, names) == [type |-> "ValueError", text |-> text, names |-> names]

FileNotFoundError(path) ==
    [type |-> "FileNotFoundError", text |-> "No such file or directory", names |-> <<path>>]

\* One CharacterRow from one raw row.
CharacterRow(r) ==
    [ character |-> Strip(r.Character),
      age_group |-> Lower(Strip(r.Age_Group)),
      gender    |-> Lower(Strip(r.Gender)),
      hair      |-> Strip(r.Hair_Block),
      casual    |-> Strip(r.Casual_Outfit_Block),
      pajamas   |-> Strip(r.Pajamas_Block),
      camp      |-> Strip(r.Camp_Everfree_Outfit_Block) ]

\* A plausible slip: the header is not checked, and a missing cell reads as "".
read_characters_csv_NoHeaderCheck(path) ==
    LET f       == FileSystem(path)
        named(r) == Strip(r.Character) # <<>>
        kept    == SelectSeq(f.rows, named)
    IN  IF ~f.exists THEN [error |-> FileNotFoundError(path), rows |-> <<>>]
        ELSE [error |-> NoError,
              rows |-> [i \in 1..Len(kept) |-> CharacterRow(kept[i])]]

\* The result of read_characters_csv: the exception raised, or the rows.
read_characters_csv(path) ==
    LET f       == FileSystem(path)
        missing == CharacterColumns \ f.fieldnames
        named(r) == Strip(r.Character) # <<>>
        kept    == SelectSeq(f.rows, named)
    IN  IF ~f.exists THEN [error |-> FileNotFoundError(path), rows |-> <<>>]
        ELSE IF missing # {}
        THEN [error |-> ValueError("Character CSV missing columns", SortedColumns(missing)),
              rows |-> <<>>]
        ELSE [error |-> NoError,
              rows |-> [i \in 1..Len(kept) |-> CharacterRow(kept[i])]]

\* The result of read_template_csv: the exception raised, or the pairs.
read_template_csv(path) ==
    LET f       == FileSystem(path)
        missing == TemplateColumns \ f.fieldnames
        stripped == [i \in 1..Len(f.rows) |-> <<Strip(f.rows[i][1]), Strip(f.rows[i][2])>>]
        hasSection(p) == p[1] # <<>>
    IN  IF ~f.exists THEN [error |-> FileNotFoundError(path), items |-> <<>>]
        ELSE IF missing # {}
        THEN [error |-> ValueError("Template CSV missing columns", SortedColumns(missing)),
              items |-> <<>>]
        ELSE [error |-> NoError, items |-> SelectSeq(stripped, hasSection)]

\* ------------------------------------------------------------------------
\* Helpers
\* ------------------------------------------------------------------------

\* re.sub(r"[^\w\s-]+", "", s)
DropNonSlugChars(s) ==
    SelectSeq(s, LAMBDA c : c \in WordChars \cup Whitespace \cup {"-"})

\* re.sub(r"[\s_-]+", "_", s): a run of separators becomes one underscore.
CollapseSeparators(s) ==
    LET isSep(i) == s[i] \in Whitespace \cup {"_", "-"}
        keep(i)  == ~isSep(i) \/ i = 1 \/ ~isSep(i - 1)
        kept     == SelectSeq([i \in 1..Len(s) |-> i], keep)
    IN  [k \in 1..Len(kept) |-> IF isSep(kept[k]) THEN "_" ELSE s[kept[k]]]

slugify(s) ==
    LET t == StripChars(
                 CollapseSeparators(DropNonSlugChars(Lower(Strip(s)))),
                 {"_"})
    IN  IF t = <<>> THEN Txt_item ELSE t

\* os.path.basename: what follows the last "/".
basename(path) ==
    IF \A i \in 1..Len(path) : path[i] # "/" THEN path
    ELSE SubSeq(path,
                1 + (CHOOSE i \in 1..Len(path) :
                        path[i] = "/" /\ \A j \in (i + 1)..Len(path) : path[j] # "/"),
                Len(path))

template_kind_from_filename(path) ==
    LET base == Lower(basename(path))
    IN  IF Contains(base, Txt_classroom) THEN "classroom"
        ELSE IF Contains(base, Txt_daytime) THEN "daytime"
        ELSE IF Contains(base, Txt_outdoor) THEN "outdoor"
        ELSE IF Contains(base, Txt_winter) THEN "winter"
        ELSE IF Contains(base, Txt_camp) \/ Contains(base, Txt_everfree) THEN "camp"
        ELSE "sleep"

\* The kind as text, for a file name.
KindText(kind) ==
    CASE kind = "classroom" -> Txt_classroom
      [] kind = "daytime" -> Txt_daytime
      [] kind = "outdoor" -> Txt_outdoor
      [] kind = "winter" -> Txt_winter
      [] kind = "camp" -> Txt_camp
      [] OTHER -> Txt_sleep

\* Case-insensitive lookup for Character names: a later row with the same
\* lowered name replaces an earlier one.
RECURSIVE LookupLoop(_, _)
LookupLoop(rs, acc) ==
    IF rs = <<>> THEN acc
    ELSE LookupLoop(Tail(rs), DictSet(acc, Lower(rs[1].character), rs[1]))

build_lookup(rs) == LookupLoop(rs, EmptyDict)

\* s[:n]
Truncate(s, n) == IF Len(s) <= n THEN s ELSE SubSeq(s, 1, n)

\* The slice bound of the group slug.
GroupSlugChars == 120

\* slugify("_".join([c.character for c in group_chars])[:120])
group_slug(group_chars) ==
    slugify(Truncate(Join(GroupNames(group_chars), Underscore), GroupSlugChars))

\* f"{gi:03d}"
ZeroPad3(n) ==
    IF n < 10 THEN <<"0", "0">> \o IntToStr(n)
    ELSE IF n < 100 THEN <<"0">> \o IntToStr(n)
    ELSE IntToStr(n)

\* The text write_txt writes.
txt_content(main_p, neg_p, settings) ==
    Txt_MAIN_PROMPT \o main_p \o Txt_NEGATIVE_PROMPT \o neg_p
        \o (IF settings # <<>> THEN Txt_SETTINGS \o settings \o Newline ELSE Newline)

\* An answer to prompt_int: blank (or text int() rejects), or an integer.
BlankAnswer == [blank |-> TRUE, v |-> 0]
IntAnswer(v) == [blank |-> FALSE, v |-> v]

\* max(minv, min(maxv, v))
Clamp(v, minv, maxv) ==
    LET lo == IF maxv < v THEN maxv ELSE v
    IN  IF minv > lo THEN minv ELSE lo

prompt_int(typed, default, minv, maxv) ==
    IF typed.blank THEN default ELSE Clamp(typed.v, minv, maxv)

\* prompt_path: the stripped answer, or the default.
prompt_path(typed, default) == IF Strip(typed) # <<>> THEN Strip(typed) ELSE default

\* ------------------------------------------------------------------------
\* Character scope selection
\* ------------------------------------------------------------------------

\* The loop of choice 3: the rows found, and the names not found, in typed order.
RECURSIVE ResolveNames(_, _, _, _)
ResolveNames(names, table, selected, missing) ==
    IF names = <<>> THEN [selected |-> selected, missing |-> missing]
    ELSE IF Lower(names[1]) \in DOMAIN table
         THEN ResolveNames(Tail(names), table,
                           Append(selected, table[Lower(names[1])]), missing)
         ELSE ResolveNames(Tail(names), table, selected, Append(missing, names[1]))

\* The result of prompt_character_scope for one answered menu: the exception
\* raised, or the rows in scope.
prompt_character_scope(all_rows, answer) ==
    LET lookup_all == build_lookup(all_rows)
        name == Strip(answer.names)
        res  == ResolveNames(parse_list(Strip(answer.names)), lookup_all, <<>>, <<>>)
    IN  IF answer.choice = "1" THEN [error |-> NoError, rows |-> all_rows]
        ELSE IF answer.choice = "2"
        THEN IF Lower(name) \in DOMAIN lookup_all
             THEN [error |-> NoError, rows |-> <<lookup_all[Lower(name)]>>]
             ELSE [error |-> ValueError("Not found in character CSV", <<name>>),
                   rows |-> <<>>]
        ELSE IF res.missing # <<>>
             THEN [error |-> ValueError("Not found in character CSV", res.missing),
                   rows |-> <<>>]
             ELSE IF res.selected = <<>>
             THEN [error |-> ValueError("No valid characters selected.", <<>>),
                   rows |-> <<>>]
             ELSE [error |-> NoError, rows |-> res.selected]

\* ------------------------------------------------------------------------
\* Main: the state of one run
\* ------------------------------------------------------------------------

VARIABLES
    pc,             \* where main() stands
    char_csv,       \* the character CSV path answered
    templates,      \* the list of template paths
    outdir_made,    \* os.makedirs(outdir) has run
    rows_all,       \* read_characters_csv's rows
    rows,           \* the rows in scope
    lookup,         \* build_lookup(rows)
    forced_mode,    \* prompt_outfit_force's answer
    template_pack,  \* (kind, items, tpath) of every template read so far
    mode,           \* prompt_choice's answer
    combined_rows,  \* the rows collected for the combined CSV
    files,          \* the text files in the output folder, by name
    combined_csv,   \* the combined CSV once written
    error,          \* the exception that ended the run
    unit,           \* units done in the loop main() stands in
    group_chars,    \* the members of the group being generated
    group_size,     \* random groups: the size asked for
    num_groups,     \* random groups: how many were asked for
    gi,             \* random groups: the number of the group sampled last
    fn_args,        \* a function called on its own: its name and arguments
    fn_result       \* a function called on its own: what it returned

vars == << pc, char_csv, templates, outdir_made, rows_all, rows, lookup,
           forced_mode, template_pack, mode, combined_rows, files,
           combined_csv, error, unit, group_chars, group_size, num_groups, gi,
           fn_args, fn_result >>

\* The state of main() alone.
main_vars == << pc, char_csv, templates, outdir_made, rows_all, rows, lookup,
                forced_mode, template_pack, mode, combined_rows, files,
                combined_csv, error, unit, group_chars, group_size, num_groups,
                gi >>

NoCall == [fn |-> "none"]
NoResult == [returned |-> FALSE]

default_templates ==
    << Path_t_classroom, Path_t_daytime, Path_t_outdoor, Path_t_sleep,
       Path_t_winter >>

combined_fieldnames ==
    << "Mode", "Character_Scope", "Forced_Outfit_Mode", "Resolved_Outfit_Mode",
       "Group_Name", "Character", "Template_Kind", "Template_File",
       "Main_Prompt", "Negative_Prompt", "Settings", "Output_File" >>

NoCsv == [written |-> FALSE, header |-> <<>>, rows |-> <<>>]

\* The state of main() before anything has run, standing at `start`.
MainAt(start) ==
    /\ pc = start
    /\ char_csv = <<>>
    /\ templates = <<>>
    /\ outdir_made = FALSE
    /\ rows_all = <<>>
    /\ rows = <<>>
    /\ lookup = EmptyDict
    /\ forced_mode = "auto"
    /\ template_pack = <<>>
    /\ mode = ""
    /\ combined_rows = <<>>
    /\ files = EmptyDict
    /\ combined_csv = NoCsv
    /\ error = NoError
    /\ unit = 0
    /\ group_chars = <<>>
    /\ group_size = 0
    /\ num_groups = 0
    /\ gi = 0

Init ==
    /\ MainAt("start")
    /\ fn_args = NoCall
    /\ fn_result = NoResult

\* An uncaught exception ends the run.
Raise(e) ==
    /\ pc' = "error"
    /\ error' = e

\* scope_names = ", ".join([r.character for r in rows])
scope_names == Join(GroupNames(rows), CommaSpace)

\* The paths, the template list and the output folder are asked for first.
PromptPaths ==
    /\ pc = "start"
    /\ UNCHANGED << fn_args, fn_result >>
    /\ \E c \in CharCsvAnswers, t \in TemplateAnswers :
          /\ char_csv' = prompt_path(c, Path_reference)
          /\ templates' = IF Strip(t) # <<>> THEN parse_list(Strip(t))
                          ELSE default_templates
    /\ outdir_made' = TRUE
    /\ pc' = "read_characters"
    /\ UNCHANGED << rows_all, rows, lookup, forced_mode, template_pack, mode,
                    combined_rows, files, combined_csv, error, unit,
                    group_chars, group_size, num_groups, gi >>

\* rows_all = read_characters_csv(char_csv)
ReadCharacters ==
    /\ pc = "read_characters"
    /\ UNCHANGED << fn_args, fn_result >>
    /\ LET r == read_characters_csv(char_csv)
       IN  IF r.error.type # "none"
           THEN Raise(r.error) /\ UNCHANGED rows_all
           ELSE rows_all' = r.rows /\ pc' = "scope" /\ UNCHANGED error
    /\ UNCHANGED << char_csv, templates, outdir_made, rows, lookup, forced_mode,
                    template_pack, mode, combined_rows, files, combined_csv,
                    unit, group_chars, group_size, num_groups, gi >>

\* rows = prompt_character_scope(rows_all); lookup = build_lookup(rows)
PromptCharacterScope ==
    /\ pc = "scope"
    /\ UNCHANGED << fn_args, fn_result >>
    /\ \E answer \in ScopeAnswers :
          LET r == prompt_character_scope(rows_all, answer)
          IN  IF r.error.type # "none"
              THEN Raise(r.error) /\ UNCHANGED << rows, lookup >>
              ELSE /\ rows' = r.rows
                   /\ lookup' = build_lookup(r.rows)
                   /\ pc' = "outfit"
                   /\ UNCHANGED error
    /\ UNCHANGED << char_csv, templates, outdir_made, rows_all, forced_mode,
                    template_pack, mode, combined_rows, files, combined_csv,
                    unit, group_chars, group_size, num_groups, gi >>

\* forced_mode = prompt_outfit_force()
PromptOutfitForce ==
    /\ pc = "outfit"
    /\ UNCHANGED << fn_args, fn_result >>
    /\ \E f \in ForcedModes : forced_mode' = f
    /\ pc' = "read_templates"
    /\ UNCHANGED << char_csv, templates, outdir_made, rows_all, rows, lookup,
                    template_pack, mode, combined_rows, files, combined_csv,
                    error, unit, group_chars, group_size, num_groups, gi >>

\* One iteration of the loop that fills template_pack.
ReadTemplate ==
    /\ pc = "read_templates"
    /\ UNCHANGED << fn_args, fn_result >>
    /\ Len(template_pack) < Len(templates)
    /\ LET tpath == templates[Len(template_pack) + 1]
           kind  == template_kind_from_filename(tpath)
           r     == read_template_csv(tpath)
       IN  IF r.error.type # "none"
           THEN Raise(r.error) /\ UNCHANGED template_pack
           ELSE /\ template_pack' =
                       Append(template_pack,
                              [kind |-> kind, items |-> r.items, tpath |-> tpath])
                /\ UNCHANGED << pc, error >>
    /\ UNCHANGED << char_csv, templates, outdir_made, rows_all, rows, lookup,
                    forced_mode, mode, combined_rows, files, combined_csv,
                    unit, group_chars, group_size, num_groups, gi >>

\* mode = prompt_choice(), and the branch taken on it.
PromptChoice ==
    /\ pc = "read_templates"
    /\ UNCHANGED << fn_args, fn_result >>
    /\ Len(template_pack) = Len(templates)
    /\ \E m \in {"1", "2", "3", "4"} :
          /\ mode' = m
          /\ pc' = IF m = "2" THEN "manual"
                   ELSE IF m = "3" THEN "random"
                   ELSE "singles"
    /\ combined_rows' = <<>>
    /\ unit' = 0
    /\ UNCHANGED << char_csv, templates, outdir_made, rows_all, rows, lookup,
                    forced_mode, template_pack, files, combined_csv, error,
                    group_chars, group_size, num_groups, gi >>

\* One row of combined_rows.
CombinedRow(mode_name, kind, tpath, group_name, character, rendered, filename) ==
    [ Mode                 |-> mode_name,
      Character_Scope      |-> scope_names,
      Forced_Outfit_Mode   |-> forced_mode,
      Resolved_Outfit_Mode |-> resolve_outfit_mode(kind, forced_mode),
      Group_Name           |-> group_name,
      Character            |-> character,
      Template_Kind        |-> kind,
      Template_File        |-> basename(tpath),
      Main_Prompt          |-> rendered.main,
      Negative_Prompt      |-> rendered.neg,
      Settings             |-> rendered.settings,
      Output_File          |-> filename ]

\* write_txt, then combined_rows.append: the end of every generation unit.
\* A file is recorded by the number of the unit that wrote it last; its text
\* is file_text below.
WriteUnit(filename, row) ==
    /\ files' = DictSet(files, filename, Len(combined_rows) + 1)
    /\ combined_rows' = Append(combined_rows, row)

\* The text of a file of the output folder, as write_txt wrote it.
file_text(filename) ==
    LET row == combined_rows[files[filename]]
    IN  txt_content(row.Main_Prompt, row.Negative_Prompt, row.Settings)

\* generate_singles: one pass of the inner loop (one character, one template).
GenerateSingle ==
    /\ pc = "singles"
    /\ UNCHANGED << fn_args, fn_result >>
    /\ unit < Len(rows) * Len(template_pack)
    /\ LET c  == rows[(unit \div Len(template_pack)) + 1]
           t  == template_pack[(unit % Len(template_pack)) + 1]
           assembled == assemble_single(t.items, c, t.kind, forced_mode)
           rendered  == render_prompt(assembled)
           filename  == slugify(c.character) \o DoubleUnderscore
                            \o KindText(t.kind) \o Txt_txt
       IN  WriteUnit(filename,
                     CombinedRow("single", t.kind, t.tpath, <<>>, c.character,
                                 rendered, filename))
    /\ unit' = unit + 1
    /\ UNCHANGED << pc, char_csv, templates, outdir_made, rows_all, rows, lookup,
                    forced_mode, template_pack, mode, combined_csv, error,
                    group_chars, group_size, num_groups, gi >>

\* generate_singles returns; main() goes on as the mode says.
SinglesDone ==
    /\ pc = "singles"
    /\ UNCHANGED << fn_args, fn_result >>
    /\ unit = Len(rows) * Len(template_pack)
    /\ pc' = IF mode = "1" THEN "write_combined" ELSE "ask_manual"
    /\ UNCHANGED << char_csv, templates, outdir_made, rows_all, rows, lookup,
                    forced_mode, template_pack, mode, combined_rows, files,
                    combined_csv, error, unit, group_chars, group_size,
                    num_groups, gi >>

\* prompt_yes_no("Also generate a manual group?")
AskManual ==
    /\ pc = "ask_manual"
    /\ UNCHANGED << fn_args, fn_result >>
    /\ \E yes \in BOOLEAN : pc' = IF yes THEN "manual" ELSE "ask_random"
    /\ UNCHANGED << char_csv, templates, outdir_made, rows_all, rows, lookup,
                    forced_mode, template_pack, mode, combined_rows, files,
                    combined_csv, error, unit, group_chars, group_size,
                    num_groups, gi >>

\* The result of the first part of generate_manual_group for one typed line:
\* the exception raised, or the members of the group.
manual_group_members(group_str, table) ==
    LET names == parse_list(Strip(group_str))
        res   == ResolveNames(names, table, <<>>, <<>>)
    IN  IF Len(names) < 2
        THEN [error |-> ValueError("Manual group requires at least 2 characters.", <<>>),
              members |-> <<>>]
        ELSE IF res.missing # <<>>
        THEN [error |-> ValueError("Not found in selected character scope", res.missing),
              members |-> <<>>]
        ELSE [error |-> NoError, members |-> res.selected]

\* generate_manual_group, up to its loop over the templates.
PromptManualGroup ==
    /\ pc = "manual"
    /\ UNCHANGED << fn_args, fn_result >>
    /\ \E group_str \in GroupAnswers :
          LET r == manual_group_members(group_str, lookup)
          IN  IF r.error.type # "none"
              THEN Raise(r.error) /\ UNCHANGED << group_chars, unit >>
              ELSE /\ group_chars' = r.members
                   /\ unit' = 0
                   /\ pc' = "manual_units"
                   /\ UNCHANGED error
    /\ UNCHANGED << char_csv, templates, outdir_made, rows_all, rows, lookup,
                    forced_mode, template_pack, mode, combined_rows, files,
                    combined_csv, group_size, num_groups, gi >>

\* generate_manual_group: one pass of the loop over the templates.
GenerateManualUnit ==
    /\ pc = "manual_units"
    /\ UNCHANGED << fn_args, fn_result >>
    /\ unit < Len(template_pack)
    /\ LET t == template_pack[unit + 1]
           assembled == assemble_group(t.items, group_chars, t.kind, forced_mode)
           rendered  == render_prompt(assembled)
           filename  == Txt_group \o DoubleUnderscore \o KindText(t.kind)
                            \o DoubleUnderscore \o group_slug(group_chars)
                            \o Txt_txt
       IN  WriteUnit(filename,
                     CombinedRow("group_manual", t.kind, t.tpath,
                                 Join(GroupNames(group_chars), CommaSpace), <<>>,
                                 rendered, filename))
    /\ unit' = unit + 1
    /\ UNCHANGED << pc, char_csv, templates, outdir_made, rows_all, rows, lookup,
                    forced_mode, template_pack, mode, combined_csv, error,
                    group_chars, group_size, num_groups, gi >>

\* generate_manual_group returns.
ManualDone ==
    /\ pc = "manual_units"
    /\ UNCHANGED << fn_args, fn_result >>
    /\ unit = Len(template_pack)
    /\ pc' = IF mode = "2" THEN "write_combined" ELSE "ask_random"
    /\ UNCHANGED << char_csv, templates, outdir_made, rows_all, rows, lookup,
                    forced_mode, template_pack, mode, combined_rows, files,
                    combined_csv, error, unit, group_chars, group_size,
                    num_groups, gi >>

\* prompt_yes_no("Also generate random groups?")
AskRandom ==
    /\ pc = "ask_random"
    /\ UNCHANGED << fn_args, fn_result >>
    /\ \E yes \in BOOLEAN : pc' = IF yes THEN "random" ELSE "write_combined"
    /\ UNCHANGED << char_csv, templates, outdir_made, rows_all, rows, lookup,
                    forced_mode, template_pack, mode, combined_rows, files,
                    combined_csv, error, unit, group_chars, group_size,
                    num_groups, gi >>

\* The answers typed for the size and the number of random groups.  A blank
\* answer for the number (10 groups) is beyond the model's bound.
SizeAnswers == {BlankAnswer} \cup {IntAnswer(v) : v \in 0..MaxSizeInput}
NumAnswers == {IntAnswer(v) : v \in 0..MaxNumGroups}

\* A plausible slip: `<=` for `<`, which turns away a group of the pool's size.
capacity_error_OffByOne(pool, size) == Len(pool) <= size

\* Whether generate_random_groups raises for this pool and size.
capacity_error(pool, size) == Len(pool) < size

\* generate_random_groups, up to its loop over the groups.  random.seed only
\* fixes which samples follow; the model leaves every sample possible.
PromptRandomGroups ==
    /\ pc = "random"
    /\ UNCHANGED << fn_args, fn_result >>
    /\ \E size_typed \in SizeAnswers, num_typed \in NumAnswers :
          LET size == prompt_int(size_typed, 3, 2, 10)
              num  == prompt_int(num_typed, 10, 1, 10000)
          IN  /\ group_size' = size
              /\ num_groups' = num
              /\ IF capacity_error(rows, size)
                 THEN Raise(ValueError("Not enough characters in the selected scope for the requested group size.", <<>>))
                 ELSE pc' = "random_sample" /\ UNCHANGED error
    /\ gi' = 0
    /\ UNCHANGED << char_csv, templates, outdir_made, rows_all, rows, lookup,
                    forced_mode, template_pack, mode, combined_rows, files,
                    combined_csv, unit, group_chars >>

\* random.sample(pool, k): k positions of the pool, no position twice, in any
\* order.
Samples(pool, k) ==
    { [i \in 1..k |-> pool[pos[i]]] :
        pos \in { f \in [1..k -> 1..Len(pool)] :
                    \A i, j \in 1..k : i # j => f[i] # f[j] } }

\* generate_random_groups: one group is sampled.
SampleGroup ==
    /\ pc = "random_sample"
    /\ UNCHANGED << fn_args, fn_result >>
    /\ gi < num_groups
    /\ gi' = gi + 1
    /\ \E sample \in Samples(rows, group_size) : group_chars' = sample
    /\ unit' = 0
    /\ pc' = "random_units"
    /\ UNCHANGED << char_csv, templates, outdir_made, rows_all, rows, lookup,
                    forced_mode, template_pack, mode, combined_rows, files,
                    combined_csv, error, group_size, num_groups >>

\* generate_random_groups: one pass of the loop over the templates.
GenerateRandomUnit ==
    /\ pc = "random_units"
    /\ UNCHANGED << fn_args, fn_result >>
    /\ unit < Len(template_pack)
    /\ LET t == template_pack[unit + 1]
           assembled == assemble_group(t.items, group_chars, t.kind, forced_mode)
           rendered  == render_prompt(assembled)
           filename  == Txt_group_rand \o ZeroPad3(gi) \o DoubleUnderscore
                            \o KindText(t.kind) \o DoubleUnderscore
                            \o group_slug(group_chars) \o Txt_txt
       IN  WriteUnit(filename,
                     CombinedRow("group_random", t.kind, t.tpath,
                                 Join(GroupNames(group_chars), CommaSpace), <<>>,
                                 rendered, filename))
    /\ unit' = unit + 1
    /\ UNCHANGED << pc, char_csv, templates, outdir_made, rows_all, rows, lookup,
                    forced_mode, template_pack, mode, combined_csv, error,
                    group_chars, group_size, num_groups, gi >>

\* The templates are done for this group: back to the loop over the groups.
RandomGroupDone ==
    /\ pc = "random_units"
    /\ UNCHANGED << fn_args, fn_result >>
    /\ unit = Len(template_pack)
    /\ pc' = "random_sample"
    /\ UNCHANGED << char_csv, templates, outdir_made, rows_all, rows, lookup,
                    forced_mode, template_pack, mode, combined_rows, files,
                    combined_csv, error, unit, group_chars, group_size,
                    num_groups, gi >>

\* generate_random_groups returns.
RandomDone ==
    /\ pc = "random_sample"
    /\ UNCHANGED << fn_args, fn_result >>
    /\ gi = num_groups
    /\ pc' = "write_combined"
    /\ UNCHANGED << char_csv, templates, outdir_made, rows_all, rows, lookup,
                    forced_mode, template_pack, mode, combined_rows, files,
                    combined_csv, error, unit, group_chars, group_size,
                    num_groups, gi >>

\* The combined CSV is written and the run prints "Done.".
WriteCombined ==
    /\ pc = "write_combined"
    /\ UNCHANGED << fn_args, fn_result >>
    /\ combined_csv' = [written |-> TRUE, header |-> combined_fieldnames,
                        rows |-> combined_rows]
    /\ pc' = "done"
    /\ UNCHANGED << char_csv, templates, outdir_made, rows_all, rows, lookup,
                    forced_mode, template_pack, mode, combined_rows, files,
                    error, unit, group_chars, group_size, num_groups, gi >>

Next ==
    \/ PromptPaths
    \/ ReadCharacters
    \/ PromptCharacterScope
    \/ PromptOutfitForce
    \/ ReadTemplate
    \/ PromptChoice
    \/ GenerateSingle
    \/ SinglesDone
    \/ AskManual
    \/ PromptManualGroup
    \/ GenerateManualUnit
    \/ ManualDone
    \/ AskRandom
    \/ PromptRandomGroups
    \/ SampleGroup
    \/ GenerateRandomUnit
    \/ RandomGroupDone
    \/ RandomDone
    \/ WriteCombined

Spec == Init /\ [][Next]_vars

\* ------------------------------------------------------------------------
\* The pure functions called on their own, on arguments drawn from small sets
\* ------------------------------------------------------------------------

\* Template kinds: the six template_kind_from_filename returns, and others.
KindInputs ==
    { "classroom", "daytime", "outdoor", "winter", "camp", "sleep",
      "everfree", "band", "Sleep", "CAMP", "" }

\* Forced modes: the four prompt_outfit_force returns, and others.
ForcedInputs ==
    { "auto", "casual", "pajamas", "camp", "band", "formal", "Pajamas", "" }

InitFn ==
    /\ MainAt("idle")
    /\ fn_args \in [fn : {"resolve_outfit_mode"}, kind : KindInputs,
                     forced_mode : ForcedInputs]
    /\ fn_result = NoResult

Call_resolve_outfit_mode ==
    /\ fn_args.fn = "resolve_outfit_mode"
    /\ ~fn_result.returned
    /\ fn_result' = [returned |-> TRUE,
                     value |-> resolve_outfit_mode(fn_args.kind, fn_args.forced_mode)]
    /\ UNCHANGED << main_vars, fn_args >>

NextFn ==
    \/ Call_resolve_outfit_mode

SpecFn == InitFn /\ [][NextFn]_vars

\* ------------------------------------------------------------------------
\* Properties
\* ------------------------------------------------------------------------

\* The rows of combined_rows of one mode.
RowsOfMode(mode_name) == SelectSeq(combined_rows, LAMBDA r : r.Mode = mode_name)

\* The non-empty texts that occur in the text s.
Blocks(s) == {SubSeq(s, i, j) : i \in 1..Len(s), j \in 1..Len(s)} \ {<<>>}

\* C1: the negative prompt of every generated unit, single or group, whatever
\* the template pack defines, contains one fixed non-empty text block: some
\* block occurs in the Negative_Prompt of every unit generated so far.
C1_NegativeHasFixedBlock ==
    combined_rows # <<>> =>
        \E block \in Blocks(combined_rows[1].Negative_Prompt) :
            \A i \in 1..Len(combined_rows) :
                Contains(combined_rows[i].Negative_Prompt, block)

\* C2: the members resolved for a manual group hold each character at most
\* once (compared case-insensitively): a name typed twice is dropped the
\* second time.
C2_ManualGroupHasNoDuplicate ==
    pc = "manual_units" =>
        \A i, j \in 1..Len(group_chars) :
            i # j => Lower(group_chars[i].character) # Lower(group_chars[j].character)

\* C3: a name typed for a manual group that matches no in-scope character is
\* a skip, not an abort: when at least 2 of the typed names resolve, the run
\* does not end with the exception that names the unmatched inputs.
C3_UnmatchedNameDoesNotAbort ==
    ~( /\ pc = "error"
       /\ error.text = "Not found in selected character scope"
       /\ \E group_str \in GroupAnswers :
             LET res == ResolveNames(parse_list(Strip(group_str)), lookup, <<>>, <<>>)
             IN  res.missing = error.names /\ Len(res.selected) >= 2 )

\* C4: a manual group left with fewer than 2 members is skipped, not a
\* process abort: in "generate everything" the run does not end, after the
\* singles were written, with the exception of the too-small group, which
\* would leave the random groups and the combined CSV unproduced.
C4_SmallGroupDoesNotAbort ==
    ~( /\ pc = "error"
       /\ error.text = "Manual group requires at least 2 characters."
       /\ mode = "4"
       /\ files # EmptyDict
       /\ ~combined_csv.written )

\* C5: a source that lacks a required column ends the run with an error that
\* lists exactly the missing columns, before any unit is written: the run
\* gets past a source only if its header is complete, every template has
\* been read before the first unit, and a missing-columns error finds no text
\* file, no combined row and no combined CSV.
C5_SchemaErrorBeforeOutput ==
    /\ pc \notin {"start", "read_characters", "error"} =>
           CharacterColumns \subseteq FileSystem(char_csv).fieldnames
    /\ \A i \in 1..Len(template_pack) :
           TemplateColumns \subseteq FileSystem(template_pack[i].tpath).fieldnames
    /\ (files # EmptyDict \/ combined_rows # <<>>) =>
           Len(template_pack) = Len(templates)
    /\ (pc = "error" /\ error.text = "Character CSV missing columns") =>
           /\ error.names = SortedColumns(CharacterColumns \ FileSystem(char_csv).fieldnames)
           /\ error.names # <<>>
           /\ files = EmptyDict /\ combined_rows = <<>> /\ ~combined_csv.written
    /\ (pc = "error" /\ error.text = "Template CSV missing columns") =>
           /\ error.names =
                  SortedColumns(TemplateColumns
                                    \ FileSystem(templates[Len(template_pack) + 1]).fieldnames)
           /\ error.names # <<>>
           /\ files = EmptyDict /\ combined_rows = <<>> /\ ~combined_csv.written

\* C5 happens: the second template of the list lacks the Content column, after
\* the roster and the first template were read.
C5_Witness ==
    /\ pc = "error"
    /\ error.text = "Template CSV missing columns"
    /\ error.names = <<"Content">>
    /\ Len(template_pack) = 1
    /\ rows # <<>>

\* C6: a character source with zero usable rows is a fatal error: the run
\* never reaches generation, or its normal end, with an empty roster.
C6_EmptyRosterIsFatal ==
    pc \in {"singles", "manual_units", "random_units", "write_combined", "done"} =>
        rows_all # <<>>

\* C7: a random-group request whose size exceeds the number of in-scope
\* characters fails before any random group is sampled or written, and a
\* request whose size does not exceed it raises no capacity error and
\* generates exactly the number of groups asked for, each for every template.
C7_RandomGroupCapacity ==
    /\ (pc = "error" /\ error.text = "Not enough characters in the selected scope for the requested group size.") =>
           /\ Len(rows) < group_size
           /\ gi = 0
           /\ RowsOfMode("group_random") = <<>>
    /\ pc \in {"random_sample", "random_units"} =>
           /\ group_size <= Len(rows)
           /\ gi <= num_groups
           /\ Len(group_chars) = group_size \/ gi = 0
    /\ pc \in {"write_combined", "done"} =>
           /\ gi = num_groups
           /\ Len(RowsOfMode("group_random")) = num_groups * Len(template_pack)

\* C7 happens: two groups of exactly the pool's size were asked for and
\* written for a template.
C7_Witness ==
    /\ pc = "done"
    /\ num_groups = 2
    /\ group_size = Len(rows)
    /\ Len(template_pack) > 0
    /\ Len(RowsOfMode("group_random")) = 2 * Len(template_pack)

\* C8: resolve_outfit_mode follows a fixed table and always answers: an
\* explicit forced mode (casual, pajamas, camp) wins for every kind; otherwise
\* kind "sleep" gives pajamas, kind "camp" gives camp, and every other kind,
\* an unknown one included, gives casual.
C8_ResolveOutfitModeTable ==
    (fn_args.fn = "resolve_outfit_mode" /\ fn_result.returned) =>
        LET explicit == fn_args.forced_mode \in {"casual", "pajamas", "camp"}
        IN  /\ fn_result.value \in {"casual", "pajamas", "camp"}
            /\ explicit => fn_result.value = fn_args.forced_mode
            /\ (~explicit /\ fn_args.kind = "sleep") => fn_result.value = "pajamas"
            /\ (~explicit /\ fn_args.kind = "camp") => fn_result.value = "camp"
            /\ (~explicit /\ fn_args.kind \notin {"sleep", "camp"}) =>
                   fn_result.value = "casual"

\* C8 happens: an unknown kind under the automatic mode was resolved to the
\* default.
C8_Witness ==
    /\ fn_args.fn = "resolve_outfit_mode"
    /\ fn_result.returned
    /\ fn_args.kind = "band"
    /\ fn_args.forced_mode = "auto"
    /\ fn_result.value = "casual"

\* The text `value` holds one fragment per name, in the order of `names`,
\* each fragment opening with its name and a comma.
RECURSIVE TaggedInOrder(_, _)
TaggedInOrder(value, names) ==
    \/ names = <<>>
    \/ /\ MatchAt(value, names[1] \o CommaSpace, 1)
       /\ \/ Len(names) = 1
          \/ \E i \in 1..Len(value) :
                /\ MatchAt(value, CommaSpace \o names[2] \o CommaSpace, i)
                /\ TaggedInOrder(SubSeq(value, i + 2, Len(value)), Tail(names))

\* C9: for the group about to be generated, every injected per-character key
\* of assemble_group's mapping (the hair/outfit identity block and the
\* Demographics list) holds one fragment per member, prefixed by the member's
\* name, in the members' order.
C9_GroupKeysTaggedByName ==
    (pc \in {"manual_units", "random_units"} /\ unit = 0) =>
        \A k \in 1..Len(template_pack) :
            LET t == template_pack[k]
                a == assemble_group(t.items, group_chars, t.kind, forced_mode)
            IN  /\ TaggedInOrder(a[Sec_Hair_Block_Placeholder], GroupNames(group_chars))
                /\ TaggedInOrder(a[Sec_Demographics], GroupNames(group_chars))

\* The keys the specification lists as injected in both modes.
SpecInjectedKeys ==
    { Sec_Demographics, Sec_Pose,
      <<"B","o","d","y","_","T","y","p","e">>,
      <<"H","e","i","g","h","t">>,
      <<"S","k","i","n","_","T","o","n","e">>,
      <<"E","y","e","_","C","o","l","o","r">>,
      <<"H","a","i","r">> }

\* The section names of a template's pairs.
SectionsOf(items) == {items[i][1] : i \in 1..Len(items)}

\* The keys assemble_group sets itself.
GroupInjectedKeys ==
    { Sec_Character_Identity, Sec_Hair_Block_Placeholder, Sec_Pose, Sec_Body,
      Sec_Hands, Sec_Clothing, Sec_Demographics }

LastSingleCharacter == rows[((unit - 1) \div Len(template_pack)) + 1]
LastSingleTemplate == template_pack[((unit - 1) % Len(template_pack)) + 1]
LastGroupTemplate == template_pack[unit]

\* The unit written last is a single / a group.
SingleWritten == pc = "singles" /\ unit > 0
GroupWritten == pc \in {"manual_units", "random_units"} /\ unit > 0

\* The mapping the unit written last was rendered from.
LastAssembled ==
    IF pc = "singles"
    THEN assemble_single(LastSingleTemplate.items, LastSingleCharacter,
                         LastSingleTemplate.kind, forced_mode)
    ELSE assemble_group(LastGroupTemplate.items, group_chars,
                        LastGroupTemplate.kind, forced_mode)

\* A value trimmed of surrounding whitespace and surrounding commas.
TrimmedFragment(v) == StripChars(v, Whitespace \cup {","})

\* The main prompt the specification describes: the trimmed values of the
\* sections of the declared order that the mapping holds, the empty ones
\* left out, joined by ", ".
DeclaredMainPrompt(assembled) ==
    LET frag(s) == IF s \in DOMAIN assembled
                   THEN TrimmedFragment(assembled[s]) ELSE <<>>
        frags == [i \in 1..Len(main_order) |-> frag(main_order[i])]
    IN  Join(SelectSeq(frags, NonEmptyStr), CommaSpace)

\* C11: the main prompt of every written unit is the ", "-join, in the
\* declared section order, of the values of the sections present with a
\* non-empty value, each trimmed of surrounding whitespace and of surrounding
\* commas, so that no fragment is empty and no separator is doubled.
C11_MainPromptIsTrimmedJoin ==
    (SingleWritten \/ GroupWritten) =>
        combined_rows[Len(combined_rows)].Main_Prompt =
            DeclaredMainPrompt(LastAssembled)

\* The recognized placeholder tokens.
Tokens ==
    { PLACEHOLDERS.name, PLACEHOLDERS.hair, PLACEHOLDERS.casual,
      PLACEHOLDERS.pajamas, PLACEHOLDERS.camp }

\* The value the specification binds to each token: the character's own in
\* single mode; the joined member names and nothing else in group mode.
SingleValues(c) ==
    [tok \in Tokens |->
        CASE tok = PLACEHOLDERS.name -> c.character
          [] tok = PLACEHOLDERS.hair -> c.hair
          [] tok = PLACEHOLDERS.casual -> c.casual
          [] tok = PLACEHOLDERS.pajamas -> c.pajamas
          [] OTHER -> c.camp]

GroupValues(chars) ==
    [tok \in Tokens |->
        IF tok = PLACEHOLDERS.name THEN Join(GroupNames(chars), Txt_and)
        ELSE <<>>]

\* A content with every occurrence of every recognized token replaced by its
\* value in one pass from the left, everything else left verbatim.
RECURSIVE BindAll(_, _)
BindAll(s, value) ==
    LET hits == {i \in 1..Len(s) : \E tok \in Tokens : MatchAt(s, tok, i)}
    IN  IF hits = {} THEN s
        ELSE LET i   == CHOOSE h \in hits : \A g \in hits : h <= g
                 tok == CHOOSE t \in Tokens : MatchAt(s, t, i)
             IN  SubSeq(s, 1, i - 1) \o value[tok]
                     \o BindAll(SubSeq(s, i + Len(tok), Len(s)), value)

\* The pairs of a template whose section is not defined again further down.
LastOccurrences(items) ==
    {j \in 1..Len(items) : \A k \in (j + 1)..Len(items) : items[k][1] # items[j][1]}

\* No recognized token is left in any value of the mapping.
NoTokenLeft(assembled) ==
    \A sec \in DOMAIN assembled, tok \in Tokens : ~Contains(assembled[sec], tok)

\* C12: in single mode every template section holds its content with every
\* recognized token replaced by the character's value (Demographics is
\* injected, and a Clothing section left blank takes the outfit block); in
\* group mode every template section the group assembly does not set itself
\* holds, up to surrounding whitespace and commas, its content with the name
\* token replaced by the joined member names and every other token by the
\* empty text; in both modes no recognized token is left in any value, and
\* other bracketed text stays verbatim. (The roster's cells hold no token.)
C12_PlaceholdersBound ==
    /\ SingleWritten =>
           LET items == LastSingleTemplate.items
               bound(j) == BindAll(items[j][2], SingleValues(LastSingleCharacter))
           IN  /\ NoTokenLeft(LastAssembled)
               /\ \A j \in LastOccurrences(items) :
                      \/ items[j][1] = Sec_Demographics
                      \/ Lower(items[j][1]) = LowerClothing /\ Strip(bound(j)) = <<>>
                      \/ LastAssembled[items[j][1]] = bound(j)
    /\ GroupWritten =>
           LET items == LastGroupTemplate.items
               bound(j) == BindAll(items[j][2], GroupValues(group_chars))
           IN  /\ NoTokenLeft(LastAssembled)
               /\ \A j \in LastOccurrences(items) :
                      \/ items[j][1] \in GroupInjectedKeys
                      \/ TrimmedFragment(LastAssembled[items[j][1]])
                             = TrimmedFragment(bound(j))

\* C12 happens: after the singles of "generate everything", a group unit was
\* written from a template that has the character-name token in a section
\* the group assembly leaves to the template.
C12_Witness ==
    /\ GroupWritten
    /\ RowsOfMode("single") # <<>>
    /\ \E j \in LastOccurrences(LastGroupTemplate.items) :
          /\ LastGroupTemplate.items[j][1] \notin GroupInjectedKeys
          /\ Contains(LastGroupTemplate.items[j][2], PLACEHOLDERS.name)

\* C13: every group that random-group generation hands to assemble_group has
\* exactly the requested size, at least 2, holds only in-scope characters,
\* and holds no two members of the same name compared case-insensitively,
\* whatever scope was selected.
C13_RandomGroupMembersDistinct ==
    pc = "random_units" =>
        /\ Len(group_chars) = group_size
        /\ group_size >= 2
        /\ \A i \in 1..Len(group_chars) :
               \E k \in 1..Len(rows) : group_chars[i] = rows[k]
        /\ \A i, j \in 1..Len(group_chars) :
               i # j => Lower(group_chars[i].character)
                            # Lower(group_chars[j].character)

\* The outfit modes outfit_block_for tells apart.
OutfitModes == {"casual", "pajamas", "camp"}

\* The characters of the unit written last.
LastCharacters == IF pc = "singles" THEN <<LastSingleCharacter>> ELSE group_chars

\* C14: in every written unit, single or group, the only outfit block of a
\* character that appears in the main prompt is the block outfit_block_for
\* selects for the resolved outfit mode: a non-empty block of another mode,
\* not itself part of the selected block, does not occur in the prompt.
C14_OnlyResolvedOutfitAppears ==
    (SingleWritten \/ GroupWritten) =>
        LET row      == combined_rows[Len(combined_rows)]
            resolved == row.Resolved_Outfit_Mode
        IN  \A i \in 1..Len(LastCharacters), m \in OutfitModes \ {resolved} :
                LET other  == TrimmedFragment(outfit_block_for(LastCharacters[i], m))
                    chosen == outfit_block_for(LastCharacters[i], resolved)
                IN  (other # <<>> /\ ~Contains(chosen, other)) =>
                        ~Contains(row.Main_Prompt, other)

\* C15: no two generation units of a run write the same file name: the
\* number of distinct text files written equals the number of units
\* recorded as rows of the combined export.
C15_OneFilePerUnit ==
    Cardinality(DOMAIN files) = Len(combined_rows)
====
